---------------------------- MODULE Spec2Model ----------------------------
(***************************************************************************)
(* A model of nuclino-rs, a typed client for the Nuclino wiki HTTP API.    *)
(*                                                                         *)
(* The library has five parts, each with its own specification:            *)
(*   SpecRequest  the request builders of request_types.rs (NewPageBuilder,*)
(*                NewPage, ModifyItem) and their JSON serialization;       *)
(*   SpecDecode   the envelope decoding of lib.rs (process_response and    *)
(*                its inline copies in post and delete) as a function of   *)
(*                the HTTP status and the response body;                   *)
(*   SpecClient   the endpoint methods of lib.rs: one request through the  *)
(*                transport (ureq 2.x), then the decoding;                 *)
(*   SpecPages    the decoding of Page and List<Page> of types.rs and      *)
(*                response_types.rs, and of Field and Config;              *)
(*   SpecUrl      the URLs the endpoints with a query build (lib.rs).      *)
(* A variable a specification does not use keeps its initial value.        *)
(***************************************************************************)
EXTENDS Integers, Sequences, FiniteSets, TLC

VARIABLES
    builder,    \* the NewPageBuilder the caller holds, or NoBuilder
    calls,      \* history: the entry point and the last argument of each mutator
    op,         \* the last request-side operation, its argument, the builder before it
    ret,        \* what that operation returned
    http,       \* the last HTTP exchange: the verb, and the status and body of the
                \* response (SpecDecode) or what the transport came back with (SpecClient)
    result,     \* what the endpoint method (or the decoder) returned
    env,        \* the process environment: the variable NUCLINO_API_KEY
    client,     \* the Client the caller holds, or NoClient
    traffic,    \* history: the last Client function called, how many endpoint
                \* calls were made and how many requests the transport was handed
    wire,       \* a JSON payload handed to the Page decoders
    decoded,    \* what the Page decoders made of it
    args,       \* the arguments of a call of an endpoint that takes a query
    url         \* the URL that endpoint built

vars ==
    <<builder, calls, op, ret, http, result, env, client, traffic, wire, decoded,
      args, url>>

requestVars == <<builder, calls, op, ret>>
sessionVars == <<env, client, traffic>>
clientVars == <<http, result, sessionVars>>
pageVars == <<wire, decoded>>
urlVars == <<args, url>>

-----------------------------------------------------------------------------
(* Option<T> and JSON values.                                              *)

None == [some |-> FALSE]
Some(x) == [some |-> TRUE, v |-> x]

\* JSON values carry their JSON type (and their value under a field of that
\* type); an object is a function from its keys.
JNull == [t |-> "null"]
JStr(x) == [t |-> "str", s |-> x]
JNum(x) == [t |-> "num", n |-> x]
JBool(x) == [t |-> "bool", b |-> x]
JArr(x) == [t |-> "arr", a |-> x]
JObj(x) == [t |-> "obj", o |-> x]

\* The object with the keys ks, key k carrying val[k].
ObjectOf(ks, val) == [k \in ks |-> val[k]]

-----------------------------------------------------------------------------
(* request_types.rs                                                        *)

\* Bound: index() takes a usize; the model draws it from 0..MaxIndex.
MaxIndex == 1

Uuids == {"e9e648b3", "127a8c4a"}
Titles == {"I am entitled", "Other title"}
Contents == {"This is *markdown*", "more"}
Indexes == 0..MaxIndex

NoBuilder == [object |-> "NoBuilder"]

\* NewPageBuilder::item()
item ==
    [workspace_id |-> None, parent_id |-> None, title |-> None,
     index |-> None, object |-> "Item", content |-> None]

\* NewPageBuilder::collection()
collection ==
    [workspace_id |-> None, parent_id |-> None, title |-> None,
     index |-> None, object |-> "Collection", content |-> None]

\* A variant of title() that also drops the staged index.
title_resets_index(b, t) == [b EXCEPT !.title = Some(t), !.index = None]

\* NewPageBuilder::title(&mut self, title)
title(b, t) == [b EXCEPT !.title = Some(t)]

\* NewPageBuilder::index(&mut self, index)
index(b, i) == [b EXCEPT !.index = Some(i)]

\* A variant of workspace() that forgets to clear the parent id.
workspace_keeps_parent(b, id) == [b EXCEPT !.workspace_id = Some(id)]

\* NewPageBuilder::workspace(&mut self, id)
workspace(b, id) == [b EXCEPT !.workspace_id = Some(id), !.parent_id = None]

\* NewPageBuilder::parent(&mut self, id)
parent(b, id) == [b EXCEPT !.parent_id = Some(id), !.workspace_id = None]

\* A variant of content() that turns the page into an item.
content_makes_item(b, c) == [b EXCEPT !.content = Some(c), !.object = "Item"]

\* NewPageBuilder::content(&mut self, content)
content(b, c) == [b EXCEPT !.content = Some(c)]

\* A variant of build() that puts an unplaced page in a default workspace.
build_places_page(b) ==
    LET c == IF b.object = "Collection" THEN None ELSE b.content
        w == IF b.workspace_id = None /\ b.parent_id = None
             THEN Some(CHOOSE u \in Uuids : TRUE)
             ELSE b.workspace_id
    IN  [workspace_id |-> w,
         parent_id |-> b.parent_id,
         title |-> b.title,
         index |-> b.index,
         object |-> b.object,
         content |-> c]

\* A variant of build() that copies the content whatever the kind.
build_keeps_content(b) ==
    [workspace_id |-> b.workspace_id,
     parent_id |-> b.parent_id,
     title |-> b.title,
     index |-> b.index,
     object |-> b.object,
     content |-> b.content]

\* NewPageBuilder::build(&self) -> NewPage
build(b) ==
    LET c == IF b.object = "Collection" THEN None ELSE b.content
    IN  [workspace_id |-> b.workspace_id,
         parent_id |-> b.parent_id,
         title |-> b.title,
         index |-> b.index,
         object |-> b.object,
         content |-> c]

\* PageKind's Serialize, rename_all = "camelCase": a unit variant is its name.
SerializePageKind(k) == IF k = "Item" THEN JStr("item") ELSE JStr("collection")

\* #[skip_serializing_none]: an Option field is written only when it is Some.
SkipSerializingNone(fields) == {k \in DOMAIN fields : fields[k].some}

\* A variant of NewPage's Serialize without skip_serializing_none: None is null.
SerializeNewPage_nulls(p) ==
    LET opt == [workspaceId |-> p.workspace_id, parentId |-> p.parent_id,
                title |-> p.title, index |-> p.index, content |-> p.content]
    IN  JObj([k \in DOMAIN opt \cup {"object"} |->
                IF k = "object" THEN SerializePageKind(p.object)
                ELSE IF ~opt[k].some THEN JNull
                ELSE IF k = "index" THEN JNum(opt[k].v)
                ELSE JStr(opt[k].v)])

\* NewPage's Serialize: camelCase keys, None fields skipped, object always there.
SerializeNewPage(p) ==
    LET opt == [workspaceId |-> p.workspace_id, parentId |-> p.parent_id,
                title |-> p.title, index |-> p.index, content |-> p.content]
        val == [k \in DOMAIN opt \cup {"object"} |->
                  IF k = "object" THEN SerializePageKind(p.object)
                  ELSE IF ~opt[k].some THEN JNull
                  ELSE IF k = "index" THEN JNum(opt[k].v)
                  ELSE JStr(opt[k].v)]
    IN  JObj(ObjectOf(SkipSerializingNone(opt) \cup {"object"}, val))

\* ModifyItem: two public Option<String> fields; any combination can be made.
ModifyItems ==
    [title : {None} \cup {Some(t) : t \in Titles},
     content : {None} \cup {Some(c) : c \in Contents}]

\* A variant of ModifyItem's Serialize without skip_serializing_none.
SerializeModifyItem_nulls(m) ==
    JObj([title |-> IF m.title.some THEN JStr(m.title.v) ELSE JNull,
          content |-> IF m.content.some THEN JStr(m.content.v) ELSE JNull])

\* ModifyItem's Serialize: camelCase keys, None fields skipped.
SerializeModifyItem(m) ==
    LET opt == [title |-> m.title, content |-> m.content]
        val == [k \in DOMAIN opt |->
                  IF opt[k].some THEN JStr(opt[k].v) ELSE JNull]
    IN  JObj(ObjectOf(SkipSerializingNone(opt), val))

NoCalls ==
    [entry |-> "none", title |-> None, index |-> None, content |-> None,
     place |-> None]

Idle == [name |-> "idle"]
Unit == [kind |-> "unit"]

RequestInit ==
    /\ builder = NoBuilder
    /\ calls = NoCalls
    /\ op = Idle
    /\ ret = Unit

\* let mut b = NewPageBuilder::item();
StartItem ==
    /\ builder' = item
    /\ calls' = [NoCalls EXCEPT !.entry = "item"]
    /\ op' = [name |-> "item"]
    /\ ret' = [kind |-> "builder"]
    /\ UNCHANGED <<clientVars, pageVars, urlVars>>

\* let mut b = NewPageBuilder::collection();
StartCollection ==
    /\ builder' = collection
    /\ calls' = [NoCalls EXCEPT !.entry = "collection"]
    /\ op' = [name |-> "collection"]
    /\ ret' = [kind |-> "builder"]
    /\ UNCHANGED <<clientVars, pageVars, urlVars>>

\* b.title(t);
CallTitle ==
    /\ builder # NoBuilder
    /\ \E t \in Titles :
         /\ builder' = title(builder, t)
         /\ calls' = [calls EXCEPT !.title = Some(t)]
         /\ op' = [name |-> "title", arg |-> t, prev |-> builder]
    /\ ret' = [kind |-> "builder"]
    /\ UNCHANGED <<clientVars, pageVars, urlVars>>

\* b.index(i);
CallIndex ==
    /\ builder # NoBuilder
    /\ \E i \in Indexes :
         /\ builder' = index(builder, i)
         /\ calls' = [calls EXCEPT !.index = Some(i)]
         /\ op' = [name |-> "index", arg |-> i, prev |-> builder]
    /\ ret' = [kind |-> "builder"]
    /\ UNCHANGED <<clientVars, pageVars, urlVars>>

\* b.workspace(&id);
CallWorkspace ==
    /\ builder # NoBuilder
    /\ \E id \in Uuids :
         /\ builder' = workspace(builder, id)
         /\ calls' = [calls EXCEPT !.place = Some([by |-> "workspace", id |-> id])]
         /\ op' = [name |-> "workspace", arg |-> id, prev |-> builder]
    /\ ret' = [kind |-> "builder"]
    /\ UNCHANGED <<clientVars, pageVars, urlVars>>

\* b.parent(&id);
CallParent ==
    /\ builder # NoBuilder
    /\ \E id \in Uuids :
         /\ builder' = parent(builder, id)
         /\ calls' = [calls EXCEPT !.place = Some([by |-> "parent", id |-> id])]
         /\ op' = [name |-> "parent", arg |-> id, prev |-> builder]
    /\ ret' = [kind |-> "builder"]
    /\ UNCHANGED <<clientVars, pageVars, urlVars>>

\* b.content(c);
CallContent ==
    /\ builder # NoBuilder
    /\ \E c \in Contents :
         /\ builder' = content(builder, c)
         /\ calls' = [calls EXCEPT !.content = Some(c)]
         /\ op' = [name |-> "content", arg |-> c, prev |-> builder]
    /\ ret' = [kind |-> "builder"]
    /\ UNCHANGED <<clientVars, pageVars, urlVars>>

\* let page = b.build();   (build takes &self: the builder stays usable)
CallBuild ==
    /\ builder # NoBuilder
    /\ op' = [name |-> "build"]
    /\ ret' = [kind |-> "NewPage", page |-> build(builder)]
    /\ UNCHANGED <<builder, calls, clientVars, pageVars, urlVars>>

\* client.page_create(page): send_json writes the NewPage just built as the body.
SendNewPage ==
    /\ ret.kind = "NewPage"
    /\ op' = [name |-> "page_create", arg |-> ret.page]
    /\ ret' = [kind |-> "body", json |-> SerializeNewPage(ret.page)]
    /\ UNCHANGED <<builder, calls, clientVars, pageVars, urlVars>>

\* client.page_update(id, &m): send_json writes the ModifyItem as the body.
SendModifyItem ==
    /\ \E m \in ModifyItems :
         /\ op' = [name |-> "page_update", arg |-> m]
         /\ ret' = [kind |-> "body", json |-> SerializeModifyItem(m)]
    /\ UNCHANGED <<builder, calls, clientVars, pageVars, urlVars>>

RequestNext ==
    \/ StartItem
    \/ StartCollection
    \/ CallTitle
    \/ CallIndex
    \/ CallWorkspace
    \/ CallParent
    \/ CallContent
    \/ CallBuild
    \/ SendNewPage
    \/ SendModifyItem

\* The environment without the variable, no Client made, nothing called yet.
NotPresent == [t |-> "NotPresent"]
NoClient == [object |-> "NoClient"]
NoTraffic == [last |-> "none", calls |-> 0, requests |-> 0]

SessionIdle ==
    /\ env = NotPresent
    /\ client = NoClient
    /\ traffic = NoTraffic

ClientIdle ==
    /\ http = [verb |-> "none", outcome |-> [t |-> "none"]]
    /\ result = [kind |-> "none"]
    /\ SessionIdle

PagesIdle ==
    /\ wire = JNull
    /\ decoded = [kind |-> "none"]

NoArgs == [endpoint |-> "none"]
NoUrl == <<>>

UrlIdle ==
    /\ args = NoArgs
    /\ url = NoUrl

InitRequest == RequestInit /\ ClientIdle /\ PagesIdle /\ UrlIdle

SpecRequest == InitRequest /\ [][RequestNext]_vars


-----------------------------------------------------------------------------
(* Properties of the request builders, checked under SpecRequest.          *)

BothPlaces(r) == r.workspace_id.some /\ r.parent_id.some

\* C3: at most one of workspace id and parent id is set, in the builder and in
\* every NewPage build() returns; workspace(W) leaves workspace id = W and no
\* parent id, parent(P) leaves parent id = P and no workspace id, whatever the
\* builder held before the call.
C3_MutualExclusion ==
    /\ builder # NoBuilder => ~BothPlaces(builder)
    /\ ret.kind = "NewPage" => ~BothPlaces(ret.page)
    /\ op.name = "workspace" =>
         /\ builder.workspace_id = Some(op.arg)
         /\ builder.parent_id = None
    /\ op.name = "parent" =>
         /\ builder.parent_id = Some(op.arg)
         /\ builder.workspace_id = None

\* workspace(W) has just been called on a builder that held a parent id.
C3_Witness ==
    /\ op.name = "workspace"
    /\ op.prev.parent_id.some
    /\ builder.workspace_id.some

\* C4: a builder started with collection() on which content(C) was called
\* builds a NewPage without content; a built NewPage has content only when
\* its kind is item.
C4_CollectionDropsContent ==
    ret.kind = "NewPage" =>
        /\ (calls.entry = "collection" => ret.page.content = None)
        /\ (ret.page.content.some => ret.page.object = "Item")

\* build() has just run on a collection builder whose content was set.
C4_Witness ==
    /\ ret.kind = "NewPage"
    /\ calls.entry = "collection"
    /\ calls.content.some
    /\ builder.content.some
    /\ ret.page.content = None

OptionalKeys == {"workspaceId", "parentId", "title", "index", "content"}

\* The NewPage field behind a key of the request body.
FieldOf(p, k) ==
    CASE k = "workspaceId" -> p.workspace_id
      [] k = "parentId" -> p.parent_id
      [] k = "title" -> p.title
      [] k = "index" -> p.index
      [] k = "content" -> p.content

\* C5: the body of page_create for a page built from item() with title T,
\* content C and workspace W reads back T, C and W and has no parentId key;
\* every absent optional field of a NewPage is omitted from the body (never
\* null), every present one is there with its value, and the object key is
\* always there with the kind.
C5_NewPageRoundTrip ==
    op.name = "page_create" =>
        LET j == ret.json.o
            p == op.arg
        IN  /\ ret.json.t = "obj"
            /\ "object" \in DOMAIN j
            /\ j["object"] = JStr(IF p.object = "Item" THEN "item" ELSE "collection")
            /\ DOMAIN j \subseteq OptionalKeys \cup {"object"}
            /\ \A k \in OptionalKeys :
                 /\ k \in DOMAIN j <=> FieldOf(p, k).some
                 /\ k \in DOMAIN j =>
                      j[k] = IF k = "index" THEN JNum(FieldOf(p, k).v)
                             ELSE JStr(FieldOf(p, k).v)
            /\ ( /\ calls.entry = "item"
                 /\ calls.title.some
                 /\ calls.content.some
                 /\ calls.place.some
                 /\ calls.place.v.by = "workspace" )
               => /\ "title" \in DOMAIN j /\ j["title"] = JStr(calls.title.v)
                  /\ "content" \in DOMAIN j /\ j["content"] = JStr(calls.content.v)
                  /\ "workspaceId" \in DOMAIN j
                  /\ j["workspaceId"] = JStr(calls.place.v.id)
                  /\ "parentId" \notin DOMAIN j

\* The body of item().title(T).content(C).workspace(W).build() has been written.
C5_Witness ==
    /\ op.name = "page_create"
    /\ calls.entry = "item"
    /\ calls.title.some
    /\ calls.content.some
    /\ calls.index = None
    /\ calls.place.some
    /\ calls.place.v.by = "workspace"
    /\ DOMAIN ret.json.o = {"object", "title", "content", "workspaceId"}

\* C6: the body of page_update has a title key exactly when the ModifyItem has
\* a title and a content key exactly when it has content, each with its value
\* and never null; with both absent the body is the empty object.
C6_ModifyItemOmitsAbsent ==
    op.name = "page_update" =>
        LET j == ret.json.o
            m == op.arg
        IN  /\ ret.json.t = "obj"
            /\ DOMAIN j \subseteq {"title", "content"}
            /\ "title" \in DOMAIN j <=> m.title.some
            /\ "content" \in DOMAIN j <=> m.content.some
            /\ \A k \in DOMAIN j : j[k] # JNull
            /\ m.title.some => j["title"] = JStr(m.title.v)
            /\ m.content.some => j["content"] = JStr(m.content.v)
            /\ (m.title = None /\ m.content = None) => DOMAIN j = {}

\* A ModifyItem with neither field set has been written as the empty object.
C6_Witness ==
    /\ op.name = "page_update"
    /\ op.arg.title = None
    /\ op.arg.content = None
    /\ DOMAIN ret.json.o = {}


\* The kind an entry point gives the page.
KindOf(entry) == IF entry = "item" THEN "Item" ELSE "Collection"

\* C20: a builder made by item() has kind item and one made by collection()
\* has kind collection, with every optional field absent; title, index,
\* workspace, parent and content leave the kind as it was; so the builder, and
\* every NewPage built from it, has the kind of its entry point.
C20_KindFixedByEntry ==
    /\ op.name \in {"item", "collection"} =>
         builder = [workspace_id |-> None, parent_id |-> None, title |-> None,
                    index |-> None, object |-> KindOf(op.name), content |-> None]
    /\ op.name \in {"title", "index", "workspace", "parent", "content"} =>
         builder.object = op.prev.object
    /\ builder # NoBuilder => builder.object = KindOf(calls.entry)
    /\ ret.kind = "NewPage" => ret.page.object = KindOf(calls.entry)

\* A NewPage has been built from collection() after title, content and a
\* place were set, and it is a collection.
C20_Witness ==
    /\ ret.kind = "NewPage"
    /\ calls.entry = "collection"
    /\ calls.title.some /\ calls.content.some /\ calls.place.some
    /\ ret.page.object = "Collection"


\* C21: build() always returns a NewPage and checks no placement: when neither
\* workspace() nor parent() was ever called, the NewPage has no workspace id
\* and no parent id, and page_create takes it and writes a body with neither
\* a workspaceId nor a parentId key.
C21_BuildNeverValidatesPlace ==
    /\ op.name = "build" => ret.kind = "NewPage"
    /\ (ret.kind = "NewPage" /\ calls.place = None) =>
         /\ ret.page.workspace_id = None
         /\ ret.page.parent_id = None
    /\ (op.name = "page_create" /\ calls.place = None) =>
         /\ op.arg.workspace_id = None
         /\ op.arg.parent_id = None
         /\ ret.kind = "body"
         /\ "workspaceId" \notin DOMAIN ret.json.o
         /\ "parentId" \notin DOMAIN ret.json.o

\* A NewPage built without workspace() or parent() has been handed to
\* page_create with both ids absent.
C21_Witness ==
    /\ op.name = "page_create"
    /\ calls.place = None
    /\ calls.title.some
    /\ op.arg.workspace_id = None
    /\ op.arg.parent_id = None

\* C22: a NewPage built from an item builder has the title, index and content
\* of the last title(), index() and content() call (absent when there was
\* none) and the workspace id and parent id staged in the builder; title(),
\* index() and content() each change only their own field of the builder.
C22_LastCallWins ==
    /\ (ret.kind = "NewPage" /\ calls.entry = "item") =>
         /\ ret.page.title = calls.title
         /\ ret.page.index = calls.index
         /\ ret.page.content = calls.content
         /\ ret.page.workspace_id = builder.workspace_id
         /\ ret.page.parent_id = builder.parent_id
    /\ op.name = "title" => builder = [op.prev EXCEPT !.title = Some(op.arg)]
    /\ op.name = "index" => builder = [op.prev EXCEPT !.index = Some(op.arg)]
    /\ op.name = "content" =>
         builder = [op.prev EXCEPT !.content = Some(op.arg)]

\* An item has been built after index() and then title() were called and a
\* parent was staged; the title call left the index in place.
C22_Witness ==
    /\ ret.kind = "NewPage"
    /\ calls.entry = "item"
    /\ calls.title.some /\ calls.index.some
    /\ calls.content = None
    /\ calls.place.some /\ calls.place.v.by = "parent"
    /\ ret.page.index = calls.index
    /\ ret.page.parent_id = Some(calls.place.v.id)


-----------------------------------------------------------------------------
(* response_types.rs, errors.rs and the decoding of lib.rs                 *)

Verbs == {"GET", "PUT", "POST", "DELETE"}

\* HTTP status codes a response may carry (u16), both sides of 400 and 500.
StatusCodes == {200, 201, 399, 400, 404, 499, 500, 503}

\* A response body that is not JSON at all.
Garbage == [t |-> "garbage"]

\* A key the body does not have.
Absent == [t |-> "absent"]

\* Payloads: objects with an id (IdOnly, and every entity, has one).
GoodPayloads == {JObj([id |-> JStr(u)]) : u \in Uuids}
BadPayload == JNum(7)

StatusFields == {Absent, JNum(1)} \cup {JStr(x) : x \in {"success", "fail", "error", "unknown"}}
MessageFields == {Absent, JNull, JStr(""), JStr("not found")}
DataFields == {Absent, JNull, BadPayload} \cup GoodPayloads

\* The JSON object {status, message, data} without its absent keys.
EnvelopeOf(st, msg, data) ==
    LET all == [status |-> st, message |-> msg, data |-> data]
    IN  JObj(ObjectOf({k \in DOMAIN all : all[k] # Absent}, all))

Bodies ==
    {Garbage} \cup
    {EnvelopeOf(st, msg, data) :
        st \in StatusFields, msg \in MessageFields, data \in DataFields}

Ok(x) == [ok |-> TRUE, v |-> x]
Err(e) == [ok |-> FALSE, err |-> e]

\* T's Deserialize for the payload: a struct with an id (IdOnly).
DeserializePayload(j) ==
    IF j.t = "obj" /\ "id" \in DOMAIN j.o /\ j.o["id"].t = "str"
    THEN Ok([id |-> j.o["id"].s])
    ELSE Err("invalid type for the payload")

DeserializeString(j) ==
    IF j.t = "str" THEN Ok(j.s) ELSE Err("invalid type: expected a string")

\* Option<String>'s Deserialize for a struct field: a missing key and null are
\* None.
DeserializeOptionString(o, k) ==
    IF k \notin DOMAIN o \/ o[k] = JNull THEN Ok(None)
    ELSE LET r == DeserializeString(o[k]) IN IF r.ok THEN Ok(Some(r.v)) ELSE r

\* Option<T>'s Deserialize for the data field: a missing key and null are None.
DeserializeOptionPayload(o, k) ==
    IF k \notin DOMAIN o \/ o[k] = JNull THEN Ok(None)
    ELSE LET r == DeserializePayload(o[k]) IN IF r.ok THEN Ok(Some(r.v)) ELSE r

\* Response<T>'s Deserialize (serde_json): status is required, message and data
\* are Options; the first field that does not decode fails the whole envelope.
DeserializeResponse(body) ==
    IF body.t = "garbage" THEN Err("expected value")
    ELSE IF body.t # "obj" THEN Err("invalid type: expected struct Response")
    ELSE LET o == body.o
             msg == DeserializeOptionString(o, "message")
             data == DeserializeOptionPayload(o, "data")
         IN  IF "status" \notin DOMAIN o THEN Err("missing field status")
             ELSE IF ~DeserializeString(o["status"]).ok
                  THEN DeserializeString(o["status"])
             ELSE IF ~msg.ok THEN msg
             ELSE IF ~data.ok THEN data
             ELSE Ok([status |-> o["status"].s, message |-> msg.v, data |-> data.v])

\* ureq 2.x Response::into_json::<T>() -> io::Result<T>: a serde_json failure
\* comes back as an io::Error of kind InvalidData that quotes serde's message.
into_json(body) ==
    LET r == DeserializeResponse(body)
    IN  IF r.ok THEN r
        ELSE Err([type |-> "io::Error", kind |-> "InvalidData",
                  text |-> <<"Failed to read JSON: ", r.err>>])

\* The From impls `?` uses: #[from] io::Error, #[from] serde_json::Error and
\* From<ureq::Error>.
From(e) ==
    CASE e.type = "io::Error" -> [kind |-> "IoError", source |-> e]
      [] e.type = "serde_json::Error" -> [kind |-> "JsonError", source |-> e]
      [] e.type = "ureq::Error" -> [kind |-> "RequestError", text |-> e.text]

\* ResponseInfo::message
message(r) == IF r.message.some THEN r.message.v ELSE ""

\* ResponseInfo::data
data(r) == r.data

\* ResponseInfo::is_success
is_success(r) == r.status = "success"

\* A variant of make_error with the comparison off by one.
make_error_off_by_one(status, msg) ==
    IF status <= 500
    THEN [kind |-> "ClientError", status |-> status, message |-> msg]
    ELSE [kind |-> "ServerError", status |-> status, message |-> msg]

\* errors::make_error
make_error(status, msg) ==
    IF status < 500
    THEN [kind |-> "ClientError", status |-> status, message |-> msg]
    ELSE [kind |-> "ServerError", status |-> status, message |-> msg]

NoDataReturned == [kind |-> "NoDataReturned"]
OkData(d) == [kind |-> "Ok", data |-> d]

\* A variant of process_response that makes up a payload when there is none.
process_response_default(status, body) ==
    LET r == into_json(body)
    IN  IF ~r.ok THEN From(r.err)
        ELSE IF is_success(r.v)
             THEN IF data(r.v).some THEN OkData(data(r.v).v)
                  ELSE OkData([id |-> "00000000"])
        ELSE make_error(status, message(r.v))

\* Client::process_response, used by get and put
process_response(status, body) ==
    LET r == into_json(body)
    IN  IF ~r.ok THEN From(r.err)
        ELSE IF is_success(r.v)
             THEN IF data(r.v).some THEN OkData(data(r.v).v)
                  ELSE NoDataReturned
        ELSE make_error(status, message(r.v))

\* A variant of the decoding in post that reports every failure as the
\* client's.
post_decode_client_only(status, body) ==
    LET r == into_json(body)
    IN  IF ~r.ok THEN From(r.err)
        ELSE IF is_success(r.v)
             THEN IF data(r.v).some THEN OkData(data(r.v).v)
                  ELSE NoDataReturned
        ELSE [kind |-> "ClientError", status |-> status, message |-> message(r.v)]

\* The decoding written out in Client::post (lib.rs 317-327)
post_decode(status, body) ==
    LET r == into_json(body)
    IN  IF ~r.ok THEN From(r.err)
        ELSE IF is_success(r.v)
             THEN IF data(r.v).some THEN OkData(data(r.v).v)
                  ELSE NoDataReturned
        ELSE make_error(status, message(r.v))

\* The decoding written out in Client::delete (lib.rs 339-349)
delete_decode(status, body) ==
    LET r == into_json(body)
    IN  IF ~r.ok THEN From(r.err)
        ELSE IF is_success(r.v)
             THEN IF data(r.v).some THEN OkData(data(r.v).v)
                  ELSE NoDataReturned
        ELSE make_error(status, message(r.v))

Pending == [kind |-> "none"]

\* The decoders as functions: any verb, any status, any body.
InitDecode ==
    /\ RequestInit /\ PagesIdle /\ UrlIdle /\ SessionIdle
    /\ http \in [verb : Verbs, status : StatusCodes, body : Bodies]
    /\ result = Pending

DecodeGet ==
    /\ http.verb = "GET" /\ result = Pending
    /\ result' = process_response(http.status, http.body)
    /\ UNCHANGED <<http, sessionVars, requestVars, pageVars, urlVars>>

DecodePut ==
    /\ http.verb = "PUT" /\ result = Pending
    /\ result' = process_response(http.status, http.body)
    /\ UNCHANGED <<http, sessionVars, requestVars, pageVars, urlVars>>

DecodePost ==
    /\ http.verb = "POST" /\ result = Pending
    /\ result' = post_decode(http.status, http.body)
    /\ UNCHANGED <<http, sessionVars, requestVars, pageVars, urlVars>>

DecodeDelete ==
    /\ http.verb = "DELETE" /\ result = Pending
    /\ result' = delete_decode(http.status, http.body)
    /\ UNCHANGED <<http, sessionVars, requestVars, pageVars, urlVars>>

NextDecode ==
    \/ DecodeGet
    \/ DecodePut
    \/ DecodePost
    \/ DecodeDelete

SpecDecode == InitDecode /\ [][NextDecode]_vars


-----------------------------------------------------------------------------
(* Properties of the envelope decoding, checked under SpecDecode.  They     *)
(* read the body as JSON, not through the model's decoders.                 *)

HasKey(b, k) == b.t = "obj" /\ k \in DOMAIN b.o

\* The body is a JSON object whose status is the string st and whose message,
\* if any, is a string or null.
IsEnvelope(b, st) ==
    /\ HasKey(b, "status")
    /\ b.o["status"] = JStr(st)
    /\ HasKey(b, "message") => b.o["message"].t \in {"str", "null"}

NoData(b) == ~HasKey(b, "data") \/ b.o["data"] = JNull

GoodData(b) == HasKey(b, "data") /\ b.o["data"] \in GoodPayloads

\* The envelope's message, "" when it has none.
EnvelopeMessage(b) ==
    IF HasKey(b, "message") /\ b.o["message"].t = "str"
    THEN b.o["message"].s
    ELSE ""

\* C1: decoding a well-formed envelope with status "success" and payload P
\* gives exactly P; decoding one with status "fail" or "error" that came with
\* HTTP status S gives ClientError if S < 500 and ServerError otherwise, with
\* S and the envelope's message ("" when it has none).
C1_EnvelopeDecoding ==
    result # Pending =>
        LET b == http.body
            S == http.status
        IN  /\ (IsEnvelope(b, "success") /\ GoodData(b)) =>
                 /\ result.kind = "Ok"
                 /\ result.data = [id |-> b.o["data"].o["id"].s]
            /\ \A st \in {"fail", "error"} :
                 (IsEnvelope(b, st) /\ (NoData(b) \/ GoodData(b))) =>
                     /\ result.kind \in {"ClientError", "ServerError"}
                     /\ result.kind = "ClientError" <=> S < 500
                     /\ result.kind = "ServerError" <=> S >= 500
                     /\ result.status = S
                     /\ result.message = EnvelopeMessage(b)

\* An "error" envelope without a message that came with status 500 has been
\* decoded to ServerError{500, ""}.
C1_Witness ==
    /\ IsEnvelope(http.body, "error")
    /\ ~HasKey(http.body, "message")
    /\ http.status = 500
    /\ result = [kind |-> "ServerError", status |-> 500, message |-> ""]

\* C2: for every verb, decoding an envelope with status "success" and no data
\* (the key absent or null) fails with NoDataReturned: no payload is returned,
\* and the error is not the RequestError of a transport failure.
C2_NoDataReturned ==
    \A verb \in Verbs :
        ( /\ result # Pending
          /\ http.verb = verb
          /\ IsEnvelope(http.body, "success")
          /\ NoData(http.body) )
        => /\ result.kind = "NoDataReturned"
           /\ result.kind # "Ok"
           /\ "data" \notin DOMAIN result
           /\ result.kind # "RequestError"

\* A DELETE got {"status": "success"} with no data key and failed with
\* NoDataReturned.
C2_Witness ==
    /\ http.verb = "DELETE"
    /\ IsEnvelope(http.body, "success")
    /\ ~HasKey(http.body, "data")
    /\ result = [kind |-> "NoDataReturned"]

\* The body parses as the envelope shape Response<T>.
IsEnvelopeShape(b) ==
    /\ \E st \in {"success", "fail", "error", "unknown"} : IsEnvelope(b, st)
    /\ NoData(b) \/ GoodData(b)

\* C9: a response body that does not parse as the envelope shape makes the
\* method return JsonError (and no other kind).
C9_BadBodyIsJsonError ==
    (result # Pending /\ ~IsEnvelopeShape(http.body)) => result.kind = "JsonError"


\* C17: the decoding in post and the decoding in delete are the same function
\* of (HTTP status, body) as process_response, which get and put use: for
\* every status and body they return the same payload, or the same error
\* with the same status and message; so what a verb returned is what
\* process_response returns for that status and body.
C17_SameDecoding ==
    /\ post_decode(http.status, http.body) = process_response(http.status, http.body)
    /\ delete_decode(http.status, http.body) = process_response(http.status, http.body)
    /\ result # Pending => result = process_response(http.status, http.body)

\* A POST answered with status 503 and an "error" envelope has been decoded
\* to ServerError with the envelope's message.
C17_Witness ==
    /\ http.verb = "POST"
    /\ http.status = 503
    /\ IsEnvelope(http.body, "error")
    /\ result = [kind |-> "ServerError", status |-> 503, message |-> "not found"]


-----------------------------------------------------------------------------
(* The endpoint methods of lib.rs: one exchange with the transport each.   *)

\* Bound: how many endpoint calls a behaviour makes on its client.
MaxCalls == 2

\* pub static BASE_URL
BASE_URL == "https://api.nuclino.com"

\* The keys and base urls a caller may give to Client::create.
ApiKey == "secret-api-key"
ApiKeys == {ApiKey, "other-api-key"}
BaseUrls == {None, Some("https://staging.example.test")}

\* What std::env::var(APIKEY_ENV_VAR) may find: no such variable, a value that
\* is not unicode, or a string.
Present(k) == [t |-> "Present", v |-> k]
NotUnicode == [t |-> "NotUnicode"]
Environments == {NotPresent, NotUnicode, Present(ApiKey)}

\* Client::create
create(apikey, base_url) ==
    [apikey |-> apikey,
     baseurl |-> IF base_url.some THEN base_url.v ELSE BASE_URL]

ApiKeyNotFound == [kind |-> "ApiKeyNotFound"]

\* A variant of create_from_env that goes on with an empty key.
create_from_env_empty_key(e) ==
    IF e.t # "Present" THEN Ok(create("", None)) ELSE Ok(create(e.v, None))

\* Client::create_from_env: std::env::var is Err for a variable that is not
\* there and for one that is not unicode.
create_from_env(e) ==
    IF e.t # "Present" THEN Err(ApiKeyNotFound) ELSE Ok(create(e.v, None))

\* What the transport can come back with: no response at all, or a response.
TransportFailures == {[t |-> "failure", why |-> w] : w \in {"dns", "connection reset"}}
Responses == [t : {"response"}, status : StatusCodes, body : Bodies]
Outcomes == TransportFailures \cup Responses

\* A variant of get_request that leaves the header out.
get_request_no_key(c, path) ==
    [verb |-> "GET", url |-> path, Authorization |-> ""]

\* self.client.get(path).set("Authorization", &self.apikey)
get_request(c, path) ==
    [verb |-> "GET", url |-> path, Authorization |-> c.apikey]

\* self.client.put(path).set("Authorization", &self.apikey)
put_request(c, path) ==
    [verb |-> "PUT", url |-> path, Authorization |-> c.apikey]

\* self.client.post(path).set("Authorization", &self.apikey)
post_request(c, path) ==
    [verb |-> "POST", url |-> path, Authorization |-> c.apikey]

\* self.client.delete(path).set("Authorization", &self.apikey)
delete_request(c, path) ==
    [verb |-> "DELETE", url |-> path, Authorization |-> c.apikey]

\* A variant of send that hands the request to the transport a second time.
send_twice(t, name) ==
    [last |-> name, calls |-> t.calls + 1, requests |-> t.requests + 2]

\* .call() / .send_json(payload): the one place of each method where a request
\* goes to the transport; name is the method that makes the call.
send(t, name) ==
    [last |-> name, calls |-> t.calls + 1, requests |-> t.requests + 1]

\* ureq 2.x Request::call / send_json -> Result<Response, ureq::Error>: a
\* transport failure is Error::Transport, a response with status >= 400 is
\* Error::Status(status, response), any other response is Ok.
call(outcome) ==
    IF outcome.t = "failure"
    THEN Err([type |-> "ureq::Error", variant |-> "Transport", text |-> outcome.why])
    ELSE IF outcome.status >= 400
    THEN Err([type |-> "ureq::Error", variant |-> "Status",
              text |-> <<"status code", outcome.status>>])
    ELSE Ok(outcome)

\* Client::get: .get(path).set("Authorization", apikey).call()?, then
\* process_response.
get(outcome) ==
    LET r == call(outcome)
    IN  IF ~r.ok THEN From(r.err) ELSE process_response(r.v.status, r.v.body)

\* Client::put: .put(path).set(..).send_json(payload)?, then process_response.
put(outcome) ==
    LET r == call(outcome)
    IN  IF ~r.ok THEN From(r.err) ELSE process_response(r.v.status, r.v.body)

\* Client::post: .post(path).set(..).send_json(payload)?, then its own decoding.
post(outcome) ==
    LET r == call(outcome)
    IN  IF ~r.ok THEN From(r.err) ELSE post_decode(r.v.status, r.v.body)

\* Client::delete: .delete(path).set(..).call()?, then its own decoding.
delete(outcome) ==
    LET r == call(outcome)
    IN  IF ~r.ok THEN From(r.err) ELSE delete_decode(r.v.status, r.v.body)

\* The body of a file on the wire: bytes that are no JSON document.
RawBody(bytes) == [t |-> "garbage", bytes |-> bytes]

\* What a download URL may answer with: the file's bytes, or (as no server
\* does) an envelope around an array of numbers.
FileBodies ==
    {RawBody(<<137, 80, 78, 71>>), RawBody(<<>>),
     EnvelopeOf(JStr("success"), Absent, JArr(<<JNum(1), JNum(2)>>)),
     EnvelopeOf(JStr("success"), Absent, JArr(<<JNum(256)>>)),
     EnvelopeOf(JStr("success"), Absent, Absent),
     EnvelopeOf(JStr("fail"), JStr("not found"), Absent)}
FileOutcomes ==
    TransportFailures \cup [t : {"response"}, status : {200, 404}, body : FileBodies]

\* The URLs a caller may hand to download_file: File::download_info's signed
\* url, which is on another host than the API.
DownloadUrls == {<<"https://files.example.test", "/signed/", "e9e648b3">>}

\* Vec<u8>'s Deserialize: a JSON array of numbers that fit a u8.
DeserializeBytes(j) ==
    IF j.t = "arr" /\ \A i \in 1..Len(j.a) : j.a[i].t = "num" /\ j.a[i].n \in 0..255
    THEN Ok([i \in 1..Len(j.a) |-> j.a[i].n])
    ELSE Err("invalid type: expected a sequence of u8")

\* Response<Vec<u8>>'s Deserialize
DeserializeResponseBytes(body) ==
    IF body.t = "garbage" THEN Err("expected value")
    ELSE IF body.t # "obj" THEN Err("invalid type: expected struct Response")
    ELSE LET o == body.o
             msg == DeserializeOptionString(o, "message")
             bytes == IF "data" \notin DOMAIN o \/ o["data"] = JNull THEN Ok(None)
                      ELSE LET r == DeserializeBytes(o["data"])
                           IN  IF r.ok THEN Ok(Some(r.v)) ELSE r
         IN  IF "status" \notin DOMAIN o THEN Err("missing field status")
             ELSE IF ~DeserializeString(o["status"]).ok
                  THEN DeserializeString(o["status"])
             ELSE IF ~msg.ok THEN msg
             ELSE IF ~bytes.ok THEN bytes
             ELSE Ok([status |-> o["status"].s, message |-> msg.v, data |-> bytes.v])

\* Client::get::<Vec<u8>>: call()?, then process_response::<Vec<u8>>, whose
\* into_json reads the body as Response<Vec<u8>>.
get_bytes(outcome) ==
    LET r == call(outcome)
        b == IF r.ok THEN DeserializeResponseBytes(r.v.body) ELSE r
    IN  IF ~r.ok THEN From(r.err)
        ELSE IF ~b.ok
             THEN From([type |-> "io::Error", kind |-> "InvalidData",
                        text |-> <<"Failed to read JSON: ", b.err>>])
        ELSE IF is_success(b.v)
             THEN IF data(b.v).some THEN OkData(data(b.v).v)
                  ELSE NoDataReturned
        ELSE make_error(r.v.status, message(b.v))

\* Client::download_file
download_file(outcome) == get_bytes(outcome)

PageIds == {"e9e648b3"}

\* format!("{}/v0/items/{id}", self.baseurl), as page, page_update and
\* page_delete write it; page_create has no id.
items_url(c, id) == <<c.baseurl, "/v0/items/", id>>
items_root_url(c) == <<c.baseurl, "/v0/items">>

InitClient ==
    /\ RequestInit /\ PagesIdle /\ UrlIdle
    /\ http = [verb |-> "none", outcome |-> [t |-> "none"]]
    /\ result = [kind |-> "none"]
    /\ env \in Environments
    /\ client = NoClient
    /\ traffic = NoTraffic

InFlight == [t |-> "in flight"]

\* The request as the transport gets it, waiting for its outcome.
Exchange(req) ==
    [verb |-> req.verb, url |-> req.url, auth |-> req.Authorization,
     outcome |-> InFlight]

\* let client = Client::create(key, base);
Create ==
    /\ client = NoClient
    /\ \E k \in ApiKeys, b \in BaseUrls : client' = create(k, b)
    /\ result' = [kind |-> "Client"]
    /\ traffic' = [traffic EXCEPT !.last = "create"]
    /\ UNCHANGED <<http, env, requestVars, pageVars, urlVars>>

\* let client = Client::create_from_env()?;
CreateFromEnv ==
    /\ client = NoClient
    /\ LET r == create_from_env(env)
       IN  /\ client' = IF r.ok THEN r.v ELSE NoClient
           /\ result' = IF r.ok THEN [kind |-> "Client"] ELSE r.err
    /\ traffic' = [traffic EXCEPT !.last = "create_from_env"]
    /\ UNCHANGED <<http, env, requestVars, pageVars, urlVars>>

\* Each method sends its one request, with the key in the Authorization header,
\* and blocks until the transport comes back with anything it can; then the
\* method decodes and returns.
Ready ==
    /\ client # NoClient
    /\ http.outcome # InFlight
    /\ traffic.calls < MaxCalls

\* client.page(id)
GetSend ==
    /\ Ready
    /\ \E id \in PageIds : http' = Exchange(get_request(client, items_url(client, id)))
    /\ traffic' = send(traffic, "get")
    /\ result' = Pending
    /\ UNCHANGED <<env, client, requestVars, pageVars, urlVars>>

GetReturn ==
    /\ traffic.last = "get"
    /\ http.outcome = InFlight
    /\ \E outcome \in Outcomes :
         /\ http' = [http EXCEPT !.outcome = outcome]
         /\ result' = get(outcome)
    /\ UNCHANGED <<sessionVars, requestVars, pageVars, urlVars>>

\* client.page_update(id, &m)
PutSend ==
    /\ Ready
    /\ \E id \in PageIds : http' = Exchange(put_request(client, items_url(client, id)))
    /\ traffic' = send(traffic, "put")
    /\ result' = Pending
    /\ UNCHANGED <<env, client, requestVars, pageVars, urlVars>>

PutReturn ==
    /\ traffic.last = "put"
    /\ http.outcome = InFlight
    /\ \E outcome \in Outcomes :
         /\ http' = [http EXCEPT !.outcome = outcome]
         /\ result' = put(outcome)
    /\ UNCHANGED <<sessionVars, requestVars, pageVars, urlVars>>

\* client.page_create(page)
PostSend ==
    /\ Ready
    /\ http' = Exchange(post_request(client, items_root_url(client)))
    /\ traffic' = send(traffic, "post")
    /\ result' = Pending
    /\ UNCHANGED <<env, client, requestVars, pageVars, urlVars>>

PostReturn ==
    /\ traffic.last = "post"
    /\ http.outcome = InFlight
    /\ \E outcome \in Outcomes :
         /\ http' = [http EXCEPT !.outcome = outcome]
         /\ result' = post(outcome)
    /\ UNCHANGED <<sessionVars, requestVars, pageVars, urlVars>>

\* client.page_delete(id)
DeleteSend ==
    /\ Ready
    /\ \E id \in PageIds :
         http' = Exchange(delete_request(client, items_url(client, id)))
    /\ traffic' = send(traffic, "delete")
    /\ result' = Pending
    /\ UNCHANGED <<env, client, requestVars, pageVars, urlVars>>

DeleteReturn ==
    /\ traffic.last = "delete"
    /\ http.outcome = InFlight
    /\ \E outcome \in Outcomes :
         /\ http' = [http EXCEPT !.outcome = outcome]
         /\ result' = delete(outcome)
    /\ UNCHANGED <<sessionVars, requestVars, pageVars, urlVars>>

\* client.download_file(url): the url goes to get as it is.
DownloadFileSend ==
    /\ Ready
    /\ \E u \in DownloadUrls : http' = Exchange(get_request(client, u))
    /\ traffic' = send(traffic, "download_file")
    /\ result' = Pending
    /\ UNCHANGED <<env, client, requestVars, pageVars, urlVars>>

DownloadFileReturn ==
    /\ traffic.last = "download_file"
    /\ http.outcome = InFlight
    /\ \E outcome \in FileOutcomes :
         /\ http' = [http EXCEPT !.outcome = outcome]
         /\ result' = download_file(outcome)
    /\ UNCHANGED <<sessionVars, requestVars, pageVars, urlVars>>

NextClient ==
    \/ Create
    \/ CreateFromEnv
    \/ GetSend
    \/ GetReturn
    \/ PutSend
    \/ PutReturn
    \/ PostSend
    \/ PostReturn
    \/ DeleteSend
    \/ DeleteReturn
    \/ DownloadFileSend
    \/ DownloadFileReturn

SpecClient == InitClient /\ [][NextClient]_vars

-----------------------------------------------------------------------------
(* Properties of the endpoint methods, checked under SpecClient.           *)

\* The method has returned, and the transport had brought a response.
Answered == http.verb \in Verbs /\ http.outcome.t = "response"

\* C10: a call answered with status S in 400..499 and a "fail" envelope returns
\* ClientError{S, message}; one answered with S >= 500 and an "error" envelope
\* returns ServerError{S, message}; message is the envelope's, or ""; neither
\* is reported as RequestError.
C10_ServiceFailuresTyped ==
    Answered =>
        LET b == http.outcome.body
            S == http.outcome.status
        IN  /\ (S \in 400..499 /\ IsEnvelope(b, "fail") /\ (NoData(b) \/ GoodData(b))) =>
                 result = [kind |-> "ClientError", status |-> S,
                           message |-> EnvelopeMessage(b)]
            /\ (S >= 500 /\ IsEnvelope(b, "error") /\ (NoData(b) \/ GoodData(b))) =>
                 result = [kind |-> "ServerError", status |-> S,
                           message |-> EnvelopeMessage(b)]
            /\ (S >= 400 /\ (IsEnvelope(b, "fail") \/ IsEnvelope(b, "error"))) =>
                 result.kind # "RequestError"

\* C11: create_from_env, when the variable NUCLINO_API_KEY is not set, returns
\* the error ApiKeyNotFound: the caller gets no client, and no request has
\* gone to the transport.
C11_NoKeyNoClient ==
    (traffic.last = "create_from_env" /\ env = NotPresent) =>
        /\ result = ApiKeyNotFound
        /\ client = NoClient
        /\ traffic.calls = 0 /\ traffic.requests = 0
        /\ http.verb = "none"

\* create_from_env has returned in an environment without the variable.
C11_Witness ==
    /\ traffic.last = "create_from_env"
    /\ env = NotPresent
    /\ result = ApiKeyNotFound

\* The call has returned.
Returned == http.verb \in Verbs /\ http.outcome # InFlight

ErrorKinds ==
    {"ApiKeyNotFound", "ClientError", "ServerError", "RequestError", "IoError",
     "JsonError", "NoDataReturned", "ProgrammerError"}

\* C12: every call of an endpoint method hands exactly one request to the
\* transport, however it ends: after any number of calls the transport has
\* been handed as many requests as calls were made; a call that the transport
\* failed returns RequestError with the transport's text; a call whose
\* response has a status >= 400, or a body that is no envelope, or an envelope
\* that does not say success, returns an error and not a payload.
C12_OneRequestPerCall ==
    /\ traffic.requests = traffic.calls
    /\ Returned =>
         /\ result # Pending
         /\ result.kind \in ErrorKinds \cup {"Ok"}
         /\ http.outcome.t = "failure" =>
              result = [kind |-> "RequestError", text |-> http.outcome.why]
         /\ ( /\ http.outcome.t = "response"
              /\ \/ http.outcome.status >= 400
                 \/ ~IsEnvelope(http.outcome.body, "success") )
            => result.kind \in ErrorKinds

\* The second call on a client has returned the transport's failure.
C12_Witness ==
    /\ traffic.calls = 2
    /\ traffic.requests = 2
    /\ Returned
    /\ http.outcome.t = "failure"
    /\ result.kind = "RequestError"

\* C13: every request of every endpoint method, download_file included, has
\* the Authorization header, and its value is the key the client was made
\* with.
C13_AuthorizationHeader ==
    http.verb # "none" =>
        /\ client # NoClient
        /\ http.auth = client.apikey
        /\ http.auth \in ApiKeys

\* The second request of a client made with the other key, a DELETE, is on
\* its way with that key.
C13_Witness ==
    /\ traffic.calls = 2
    /\ http.verb = "DELETE"
    /\ http.outcome = InFlight
    /\ client.apikey = "other-api-key"
    /\ http.auth = "other-api-key"

\* C15: download_file returns the bytes of the response body, which is not
\* read as an envelope: a body that is no JSON envelope comes back as the
\* successful result.
C15_DownloadIsRawBytes ==
    ( /\ traffic.last = "download_file"
      /\ Returned
      /\ http.outcome.t = "response"
      /\ http.outcome.status < 400
      /\ http.outcome.body.t = "garbage" )
    => result = OkData(http.outcome.body.bytes)

\* The envelope statuses that are not "success".
NotSuccess == {"fail", "error", "unknown"}

\* C24: an endpoint answered with an envelope whose status is not "success"
\* returns no payload, also when the envelope has well-formed data: it returns
\* ClientError for an HTTP status below 500 and ServerError from 500 on, with
\* that status and the envelope's message.
C24_NonSuccessNeverPayload ==
    ( /\ Answered
      /\ traffic.last # "download_file"
      /\ \E st \in NotSuccess : IsEnvelope(http.outcome.body, st)
      /\ NoData(http.outcome.body) \/ GoodData(http.outcome.body) )
    => LET S == http.outcome.status
       IN  result = [kind |-> IF S < 500 THEN "ClientError" ELSE "ServerError",
                     status |-> S,
                     message |-> EnvelopeMessage(http.outcome.body)]

\* C25: the key goes only to the configured base URL: every request with the
\* Authorization header has a URL that starts with the client's base URL.
C25_KeyOnlyToBaseUrl ==
    (http.verb # "none" /\ http.auth \in ApiKeys) =>
        http.url[1] = client.baseurl


-----------------------------------------------------------------------------
(* types.rs: Page, Item, Collection; response_types.rs: List               *)

\* Bound: the longest results array the model decodes.
MaxList == 2

\* Values of the shared fields, one per field so that no two can be confused.
SampleWorkspace == "127a8c4a-workspace"
SampleUrl == "https://app.nuclino.com/t/b/page"
SampleCreatedAt == "2021-12-15T15:55:19.527Z"
SampleCreatedUser == "2e96f3bb-creator"
SampleUpdatedAt == "2021-12-15T17:02:53.487Z"
SampleUpdatedUser == "9bff403a-editor"
PageTitles == {"My Item", "My collection"}

\* The values the wire may carry under "object"; Absent: no such key.
ObjectTags == {Absent, JStr("item"), JStr("collection"), JStr("workspace")}

\* The keys every page carries on the wire.
SharedJson(id, ttl) ==
    [id |-> JStr(id), workspaceId |-> JStr(SampleWorkspace), url |-> JStr(SampleUrl),
     title |-> JStr(ttl), createdAt |-> JStr(SampleCreatedAt),
     createdUserId |-> JStr(SampleCreatedUser),
     lastUpdatedAt |-> JStr(SampleUpdatedAt),
     lastUpdatedUserId |-> JStr(SampleUpdatedUser)]

\* What an item carries besides (as in tests::item_list), and a collection.
ItemJson == [fields |-> JObj([date |-> JStr("2025-01-20")]),
             contentMeta |-> JObj([itemIds |-> JArr(<<>>), fileIds |-> JArr(<<>>)])]
CollectionJson == [childIds |-> JArr(<<>>)]

\* f and g together, for functions with disjoint domains.
Merge(f, g) == [k \in DOMAIN f \cup DOMAIN g |-> IF k \in DOMAIN f THEN f[k] ELSE g[k]]

\* A page on the wire: its object tag (if any), the shared keys, and the keys
\* of one of the two shapes.
PageJson(tag, shape, id, ttl) ==
    LET body == Merge(SharedJson(id, ttl),
                      IF shape = "item" THEN ItemJson ELSE CollectionJson)
    IN  JObj(IF tag = Absent THEN body ELSE Merge([object |-> tag], body))

PageJsons ==
    {PageJson(tag, shape, id, ttl) :
        tag \in ObjectTags, shape \in {"item", "collection"},
        id \in Uuids, ttl \in PageTitles}

SeqsUpTo(S, n) == UNION {[1..k -> S] : k \in 0..n}

\* A list payload on the wire.
ListJson(elems) == JObj([object |-> JStr("list"), results |-> JArr(elems)])

ListJsons == {ListJson(elems) : elems \in SeqsUpTo(PageJsons, MaxList)}

SharedKeys ==
    {"id", "workspaceId", "url", "title", "createdAt", "createdUserId",
     "lastUpdatedAt", "lastUpdatedUserId"}

AllStrings(o, ks) == \A k \in ks : k \in DOMAIN o /\ o[k].t = "str"

\* Item's Deserialize (camelCase keys; content and highlight are Options)
DeserializeItem(o) ==
    IF /\ AllStrings(o, SharedKeys)
       /\ "fields" \in DOMAIN o /\ o["fields"].t = "obj"
       /\ "contentMeta" \in DOMAIN o /\ o["contentMeta"].t = "obj"
    THEN Ok([id |-> o["id"].s,
             workspace_id |-> o["workspaceId"].s,
             url |-> o["url"].s,
             title |-> o["title"].s,
             created_at |-> o["createdAt"].s,
             created_user_id |-> o["createdUserId"].s,
             last_updated_at |-> o["lastUpdatedAt"].s,
             last_updated_user_id |-> o["lastUpdatedUserId"].s,
             fields |-> o["fields"].o,
             content |-> DeserializeOptionString(o, "content").v,
             content_meta |-> o["contentMeta"].o,
             highlight |-> DeserializeOptionString(o, "highlight").v])
    ELSE Err("missing field of Item")

\* Collection's Deserialize (camelCase keys)
DeserializeCollection(o) ==
    IF /\ AllStrings(o, SharedKeys)
       /\ "childIds" \in DOMAIN o /\ o["childIds"].t = "arr"
    THEN Ok([id |-> o["id"].s,
             workspace_id |-> o["workspaceId"].s,
             url |-> o["url"].s,
             title |-> o["title"].s,
             created_at |-> o["createdAt"].s,
             created_user_id |-> o["createdUserId"].s,
             last_updated_at |-> o["lastUpdatedAt"].s,
             last_updated_user_id |-> o["lastUpdatedUserId"].s,
             child_ids |-> o["childIds"].a])
    ELSE Err("missing field of Collection")

PageItem(v) == [variant |-> "Item", v |-> v]
PageCollection(v) == [variant |-> "Collection", v |-> v]

\* A variant of Page's Deserialize that takes any page without a known tag for
\* an item.
DeserializePage_lenient(j) ==
    IF j.t # "obj" THEN Err("invalid type: expected internally tagged enum Page")
    ELSE IF "object" \in DOMAIN j.o /\ j.o["object"] = JStr("collection")
    THEN LET r == DeserializeCollection(j.o)
         IN  IF r.ok THEN Ok(PageCollection(r.v)) ELSE r
    ELSE LET r == DeserializeItem(j.o)
         IN  IF r.ok THEN Ok(PageItem(r.v)) ELSE r

\* Page's Deserialize: #[serde(tag = "object", rename_all = "camelCase")], an
\* internally tagged enum with the variants "item" and "collection".
DeserializePage(j) ==
    IF j.t # "obj" THEN Err("invalid type: expected internally tagged enum Page")
    ELSE IF "object" \notin DOMAIN j.o THEN Err("missing field object")
    ELSE IF j.o["object"] = JStr("item")
    THEN LET r == DeserializeItem(j.o)
         IN  IF r.ok THEN Ok(PageItem(r.v)) ELSE r
    ELSE IF j.o["object"] = JStr("collection")
    THEN LET r == DeserializeCollection(j.o)
         IN  IF r.ok THEN Ok(PageCollection(r.v)) ELSE r
    ELSE Err("unknown variant, expected one of item, collection")

\* List<Page>'s Deserialize: results is required; Vec<Page> decodes every
\* element in order and fails at the first that does not decode.
DeserializeListOfPages(j) ==
    IF j.t # "obj" \/ "results" \notin DOMAIN j.o \/ j.o["results"].t # "arr"
    THEN Err("missing field results")
    ELSE LET elems == j.o["results"].a
             rs == [i \in 1..Len(elems) |-> DeserializePage(elems[i])]
         IN  IF \E i \in 1..Len(elems) : ~rs[i].ok
             THEN rs[CHOOSE i \in 1..Len(elems) :
                        ~rs[i].ok /\ \A k \in 1..(i - 1) : rs[k].ok]
             ELSE Ok([results |-> [i \in 1..Len(elems) |-> rs[i].v]])

\* FieldType's Deserialize, rename_all = "camelCase": a unit variant is its name.
FieldTypeNames ==
    {"date", "text", "number", "currency", "select", "multiSelect",
     "multiCollaborator", "createdBy", "lastUpdatedBy", "createdAt", "updatedAt"}

\* FieldType::has_config(&self)
has_config(ty) ==
    ty \in {"number", "currency", "select", "multiSelect", "createdAt", "updatedAt"}

\* The config of a field on the wire: the shapes of the API (its keys are
\* camelCase), the same under the names of the Rust fields, objects whose
\* fraction_digits is no number, an array, null.
ConfigJsons ==
    {JNull,
     JObj([fractionDigits |-> JNum(2)]),
     JObj([currency |-> JStr("USD"), fractionDigits |-> JNum(2)]),
     JObj([currency |-> JStr("USD")]),
     JObj([options |-> JArr(<<JObj([id |-> JStr("e9e648b3"), name |-> JStr("Open")])>>)]),
     JObj([includeTime |-> JBool(TRUE)]),
     JObj([fraction_digits |-> JNum(2)]),
     JObj([currency |-> JStr("USD"), fraction_digits |-> JNum(2)]),
     JObj([include_time |-> JBool(TRUE)]),
     JObj([fraction_digits |-> JStr("two"), options |-> JArr(<<>>)]),
     JObj([fraction_digits |-> JStr("two"), include_time |-> JBool(FALSE)]),
     JArr(<<JStr("USD"), JNum(2)>>)}

\* A field on the wire, with a config or (Absent) without the key.
FieldJson(ty, cfg) ==
    LET all == [id |-> JStr("e9e648b3"), name |-> JStr("Price"), type |-> JStr(ty),
                config |-> cfg]
    IN  JObj(ObjectOf({k \in DOMAIN all : all[k] # Absent}, all))

FieldJsons ==
    {FieldJson(ty, cfg) :
        ty \in FieldTypeNames \cup {"formula"},
        cfg \in ConfigJsons \cup {Absent}}

\* Option<usize>'s Deserialize
DeserializeOptionUsize(j) ==
    IF j = JNull THEN Ok(None)
    ELSE IF j.t = "num" /\ j.n >= 0 THEN Ok(Some(j.n))
    ELSE Err("invalid type: expected usize")

\* Selection's Deserialize, and Vec<Selection>'s
IsSelections(j) ==
    /\ j.t = "arr"
    /\ \A i \in 1..Len(j.a) :
         /\ j.a[i].t = "obj"
         /\ AllStrings(j.a[i].o, {"id", "name"})

\* The variants of Config as the untagged enum tries them.  The enum's
\* rename_all renames variants, not the fields of a variant: the keys are
\* fraction_digits, currency, options and include_time.  A struct variant
\* reads an object by its keys (unknown keys are skipped, a missing Option is
\* None) and an array by position.

\* Config::None, a unit variant: null only
Config_None(j) ==
    IF j = JNull THEN Ok([variant |-> "None"])
    ELSE Err("invalid type: expected unit variant Config::None")

\* Config::Number { fraction_digits: Option<usize> }
Config_Number(j) ==
    LET fd == IF j.t = "obj"
              THEN IF "fraction_digits" \in DOMAIN j.o
                   THEN DeserializeOptionUsize(j.o["fraction_digits"]) ELSE Ok(None)
              ELSE IF j.t = "arr" /\ Len(j.a) = 1 THEN DeserializeOptionUsize(j.a[1])
              ELSE Err("invalid type or length for Config::Number")
    IN  IF fd.ok THEN Ok([variant |-> "Number", fraction_digits |-> fd.v]) ELSE fd

\* Config::Currency { currency: String, fraction_digits: Option<usize> }
Config_Currency(j) ==
    LET cur == IF j.t = "obj"
               THEN IF "currency" \in DOMAIN j.o
                    THEN DeserializeString(j.o["currency"]) ELSE Err("missing field currency")
               ELSE IF j.t = "arr" /\ Len(j.a) = 2 THEN DeserializeString(j.a[1])
               ELSE Err("invalid type or length for Config::Currency")
        fd == IF j.t = "obj"
              THEN IF "fraction_digits" \in DOMAIN j.o
                   THEN DeserializeOptionUsize(j.o["fraction_digits"]) ELSE Ok(None)
              ELSE IF j.t = "arr" /\ Len(j.a) = 2 THEN DeserializeOptionUsize(j.a[2])
              ELSE Err("invalid type or length for Config::Currency")
    IN  IF ~cur.ok THEN cur
        ELSE IF ~fd.ok THEN fd
        ELSE Ok([variant |-> "Currency", currency |-> cur.v, fraction_digits |-> fd.v])

\* Config::Selections { options: Vec<Selection> }
Config_Selections(j) ==
    LET opts == IF j.t = "obj" /\ "options" \in DOMAIN j.o THEN j.o["options"]
                ELSE IF j.t = "arr" /\ Len(j.a) = 1 THEN j.a[1]
                ELSE Absent
    IN  IF opts # Absent /\ IsSelections(opts)
        THEN Ok([variant |-> "Selections", options |-> opts.a])
        ELSE Err("missing field options")

\* Config::Timestamp { include_time: bool }
Config_Timestamp(j) ==
    LET flag == IF j.t = "obj" /\ "include_time" \in DOMAIN j.o THEN j.o["include_time"]
                ELSE IF j.t = "arr" /\ Len(j.a) = 1 THEN j.a[1]
                ELSE Absent
    IN  IF flag.t = "bool"
        THEN Ok([variant |-> "Timestamp", include_time |-> flag.b])
        ELSE Err("missing field include_time")

\* Config's Deserialize: #[serde(untagged)], the first variant in the order of
\* the declaration that reads the value wins.
DeserializeConfig(j) ==
    IF Config_None(j).ok THEN Config_None(j)
    ELSE IF Config_Number(j).ok THEN Config_Number(j)
    ELSE IF Config_Currency(j).ok THEN Config_Currency(j)
    ELSE IF Config_Selections(j).ok THEN Config_Selections(j)
    ELSE IF Config_Timestamp(j).ok THEN Config_Timestamp(j)
    ELSE Err("data did not match any variant of untagged enum Config")

\* A variant of Field's Deserialize without the default for config: a field
\* of a type that has a config must carry one.
DeserializeField_strict(j) ==
    LET o == j.o
        cfg == IF "config" \in DOMAIN o THEN DeserializeConfig(o["config"])
               ELSE IF "type" \in DOMAIN o /\ o["type"].t = "str"
                       /\ has_config(o["type"].s)
               THEN Err("missing field config")
               ELSE Ok([variant |-> "None"])
    IN  IF ~AllStrings(o, {"id", "name", "type"}) THEN Err("missing field of Field")
        ELSE IF ~cfg.ok THEN cfg
        ELSE IF o["type"].s \notin FieldTypeNames
             THEN Err("unknown variant for FieldType")
        ELSE Ok([id |-> o["id"].s, name |-> o["name"].s, config |-> cfg.v,
                 field_type |-> o["type"].s])

\* Field's Deserialize: id, name and type are required, config has
\* #[serde(default)] and is Config::default() when the key is missing.
DeserializeField(j) ==
    LET o == j.o
        cfg == IF "config" \in DOMAIN o THEN DeserializeConfig(o["config"])
               ELSE Ok([variant |-> "None"])
    IN  IF ~AllStrings(o, {"id", "name", "type"}) THEN Err("missing field of Field")
        ELSE IF ~cfg.ok THEN cfg
        ELSE IF o["type"].s \notin FieldTypeNames
             THEN Err("unknown variant for FieldType")
        ELSE Ok([id |-> o["id"].s, name |-> o["name"].s, config |-> cfg.v,
                 field_type |-> o["type"].s])

\* A variant of as_vec that hands the elements out last first.
as_vec_reversed(list) ==
    [i \in 1..Len(list.results) |-> list.results[Len(list.results) + 1 - i]]

\* List::as_vec
as_vec(list) == list.results

\* List::slice
slice(list) == list.results

\* Item's accessors
Item_id(v) == v.id
Item_workspace(v) == v.workspace_id
Item_url(v) == v.url
Item_title(v) == v.title
Item_created(v) == v.created_at
Item_created_by(v) == v.created_user_id
Item_modified(v) == v.last_updated_at
Item_modified_by(v) == v.last_updated_user_id

\* Collection's accessors
Collection_id(v) == v.id
Collection_workspace(v) == v.workspace_id
Collection_url(v) == v.url
Collection_title(v) == v.title
Collection_created(v) == v.created_at
Collection_created_by(v) == v.created_user_id
Collection_modified(v) == v.last_updated_at
Collection_modified_by(v) == v.last_updated_user_id

\* Page's accessors: each matches on the variant.
Page_id(p) ==
    IF p.variant = "Item" THEN Item_id(p.v) ELSE Collection_id(p.v)

Page_workspace(p) ==
    IF p.variant = "Item" THEN Item_workspace(p.v) ELSE Collection_workspace(p.v)

Page_url(p) ==
    IF p.variant = "Item" THEN Item_url(p.v) ELSE Collection_url(p.v)

Page_title(p) ==
    IF p.variant = "Item" THEN Item_title(p.v) ELSE Collection_title(p.v)

\* A variant of Page::created whose Collection arm calls the wrong accessor.
Page_created_wrong_arm(p) ==
    IF p.variant = "Item" THEN Item_created(p.v) ELSE Collection_modified(p.v)

Page_created(p) ==
    IF p.variant = "Item" THEN Item_created(p.v) ELSE Collection_created(p.v)

Page_created_by(p) ==
    IF p.variant = "Item" THEN Item_created_by(p.v) ELSE Collection_created_by(p.v)

Page_modified(p) ==
    IF p.variant = "Item" THEN Item_modified(p.v) ELSE Collection_modified(p.v)

Page_modified_by(p) ==
    IF p.variant = "Item" THEN Item_modified_by(p.v) ELSE Collection_modified_by(p.v)

\* What the caller reads off a page through the shared accessors.
Accessors(p) ==
    [id |-> Page_id(p), workspace |-> Page_workspace(p), url |-> Page_url(p),
     title |-> Page_title(p), created |-> Page_created(p),
     created_by |-> Page_created_by(p), modified |-> Page_modified(p),
     modified_by |-> Page_modified_by(p)]

\* The Page decoders as functions: any single page, any list of pages.
InitPages ==
    /\ RequestInit /\ ClientIdle /\ UrlIdle
    /\ wire \in PageJsons \cup ListJsons \cup FieldJsons
    /\ decoded = [kind |-> "none"]

IsListJson(j) == "results" \in DOMAIN j.o
IsFieldJson(j) == "type" \in DOMAIN j.o
IsPageJson(j) == ~IsListJson(j) /\ ~IsFieldJson(j)

\* serde_json::from_str::<Page>: the data of page, page_create, page_update
DecodePage ==
    /\ decoded.kind = "none"
    /\ IsPageJson(wire)
    /\ LET r == DeserializePage(wire)
       IN  decoded' = IF r.ok
                      THEN [kind |-> "Page", page |-> r.v, seen |-> Accessors(r.v)]
                      ELSE [kind |-> "Err", err |-> r.err]
    /\ UNCHANGED <<wire, requestVars, clientVars, urlVars>>

\* serde_json::from_str::<List<Page>> and as_vec: the data of the page lists
DecodePageList ==
    /\ decoded.kind = "none"
    /\ IsListJson(wire)
    /\ LET r == DeserializeListOfPages(wire)
       IN  decoded' =
             IF r.ok
             THEN [kind |-> "List", pages |-> as_vec(r.v),
                   seen |-> [i \in 1..Len(as_vec(r.v)) |-> Accessors(as_vec(r.v)[i])]]
             ELSE [kind |-> "Err", err |-> r.err]
    /\ UNCHANGED <<wire, requestVars, clientVars, urlVars>>

\* serde_json::from_str::<Field>: an element of Workspace::fields
DecodeField ==
    /\ decoded.kind = "none"
    /\ IsFieldJson(wire)
    /\ LET r == DeserializeField(wire)
       IN  decoded' = IF r.ok THEN [kind |-> "Field", field |-> r.v]
                      ELSE [kind |-> "Err", err |-> r.err]
    /\ UNCHANGED <<wire, requestVars, clientVars, urlVars>>

\* The data of all_pages_for_team and all_pages_for_workspace: the List<Page>
\* itself is returned, and the caller reads its pages with slice().
DecodeAllPages ==
    /\ decoded.kind = "none"
    /\ IsListJson(wire)
    /\ LET r == DeserializeListOfPages(wire)
       IN  decoded' =
             IF r.ok
             THEN [kind |-> "List", list |-> r.v, pages |-> slice(r.v),
                   seen |-> [i \in 1..Len(slice(r.v)) |-> Accessors(slice(r.v)[i])]]
             ELSE [kind |-> "Err", err |-> r.err]
    /\ UNCHANGED <<wire, requestVars, clientVars, urlVars>>

NextPages ==
    \/ DecodePage
    \/ DecodePageList
    \/ DecodeAllPages
    \/ DecodeField

SpecPages == InitPages /\ [][NextPages]_vars

-----------------------------------------------------------------------------
(* Properties of the Page decoding, checked under SpecPages.  They read    *)
(* the wire as JSON, not through the model's decoders.                     *)

WireTag(e) == IF "object" \in DOMAIN e.o THEN e.o["object"] ELSE Absent

\* The page is tagged item or collection and has the keys of that shape.
WellFormedPage(e) ==
    \/ WireTag(e) = JStr("item") /\ {"fields", "contentMeta"} \subseteq DOMAIN e.o
    \/ WireTag(e) = JStr("collection") /\ "childIds" \in DOMAIN e.o

\* The shared fields as the wire carries them.
WireFields(e) ==
    [id |-> e.o["id"].s, workspace |-> e.o["workspaceId"].s, url |-> e.o["url"].s,
     title |-> e.o["title"].s, created |-> e.o["createdAt"].s,
     created_by |-> e.o["createdUserId"].s, modified |-> e.o["lastUpdatedAt"].s,
     modified_by |-> e.o["lastUpdatedUserId"].s]

\* C7: a list whose elements are tagged "item" or "collection" decodes to a
\* sequence of the same length whose element i is Page::Item exactly when the
\* input element i is tagged "item" and Page::Collection exactly when it is
\* tagged "collection"; id, workspace, url, title, created, created_by,
\* modified and modified_by of element i return the fields of input element i.
C7_ListVariantsAndAccessors ==
    (decoded.kind # "none" /\ IsListJson(wire)) =>
        LET elems == wire.o["results"].a
        IN  (\A i \in 1..Len(elems) : WellFormedPage(elems[i])) =>
              /\ decoded.kind = "List"
              /\ Len(decoded.pages) = Len(elems)
              /\ \A i \in 1..Len(elems) :
                   /\ decoded.pages[i].variant = "Item"
                        <=> WireTag(elems[i]) = JStr("item")
                   /\ decoded.pages[i].variant = "Collection"
                        <=> WireTag(elems[i]) = JStr("collection")
                   /\ decoded.seen[i] = WireFields(elems[i])

\* A list of an item followed by a collection, with different ids and titles,
\* has been decoded to two pages.
C7_Witness ==
    /\ decoded.kind = "List"
    /\ Len(decoded.pages) = 2
    /\ decoded.pages[1].variant = "Item"
    /\ decoded.pages[2].variant = "Collection"
    /\ decoded.seen[1].id # decoded.seen[2].id
    /\ decoded.seen[1].title # decoded.seen[2].title

UnknownTag(e) == WireTag(e) \notin {JStr("item"), JStr("collection")}

\* C8: a page whose discriminator is neither "item" nor "collection", or that
\* has none, does not decode to a Page of either variant; a list with such an
\* element does not decode at all (no sequence is returned, not even one
\* without the element).
C8_UnknownDiscriminatorFails ==
    decoded.kind # "none" =>
        /\ (IsPageJson(wire) /\ UnknownTag(wire)) => decoded.kind = "Err"
        /\ ( /\ IsListJson(wire)
             /\ \E i \in 1..Len(wire.o["results"].a) :
                  UnknownTag(wire.o["results"].a[i]) )
           => decoded.kind = "Err"

\* A list of a well-formed item and an element tagged "workspace" with an
\* item's keys has failed to decode.
C8_Witness ==
    /\ IsListJson(wire)
    /\ Len(wire.o["results"].a) = 2
    /\ WellFormedPage(wire.o["results"].a[1])
    /\ WireTag(wire.o["results"].a[2]) = JStr("workspace")
    /\ "fields" \in DOMAIN wire.o["results"].a[2].o
    /\ decoded.kind = "Err"

\* What tells two pages of the model's inputs apart, read off the wire and off
\* a decoded page.
WireIdentity(e) == <<WireTag(e).s, e.o["id"].s, e.o["title"].s>>
PageIdentity(pg) ==
    <<IF pg.variant = "Item" THEN "item" ELSE "collection", pg.v.id, pg.v.title>>

\* C18: the sequence a list endpoint returns (as_vec for the searches, the
\* List itself for all_pages_for_team and all_pages_for_workspace, read with
\* slice) has the length of the results array on the wire and, at every
\* position, the page of that position: nothing is reordered, dropped or
\* repeated; the List that is returned holds the same sequence.
C18_ListOrderKept ==
    decoded.kind = "List" =>
        LET elems == wire.o["results"].a
        IN  /\ Len(decoded.pages) = Len(elems)
            /\ \A i \in 1..Len(elems) :
                 PageIdentity(decoded.pages[i]) = WireIdentity(elems[i])
            /\ "list" \in DOMAIN decoded =>
                 /\ Len(decoded.list.results) = Len(elems)
                 /\ \A i \in 1..Len(elems) :
                      PageIdentity(decoded.list.results[i]) = WireIdentity(elems[i])

\* A list of two pages with different ids has come back as a List whose first
\* page is the first on the wire.
C18_Witness ==
    /\ decoded.kind = "List"
    /\ "list" \in DOMAIN decoded
    /\ Len(wire.o["results"].a) = 2
    /\ wire.o["results"].a[1].o["id"] # wire.o["results"].a[2].o["id"]
    /\ decoded.list.results[1].v.id = wire.o["results"].a[1].o["id"].s
    /\ decoded.pages[2].v.id = wire.o["results"].a[2].o["id"].s

\* The config the wire carries for a field, when it is an object.
WireConfig == wire.o["config"].o

\* C16: a field's config is decoded into the variant of its shape: an object
\* with a currency code (with or without fraction digits) to Config::Currency,
\* one with a list of options to Config::Selections, one with the include-time
\* flag to Config::Timestamp, one with only a fraction-digit count to
\* Config::Number with that count.
C16_ConfigByShape ==
    ( /\ decoded.kind # "none"
      /\ IsFieldJson(wire)
      /\ wire.o["type"].s \in FieldTypeNames
      /\ HasKey(wire, "config")
      /\ wire.o["config"].t = "obj" )
    => /\ decoded.kind = "Field"
       /\ "currency" \in DOMAIN WireConfig =>
            decoded.field.config.variant = "Currency"
       /\ "options" \in DOMAIN WireConfig =>
            decoded.field.config.variant = "Selections"
       /\ DOMAIN WireConfig \cap {"includeTime", "include_time"} # {} =>
            decoded.field.config.variant = "Timestamp"
       /\ \A k \in {"fractionDigits", "fraction_digits"} :
            DOMAIN WireConfig = {k} =>
              decoded.field.config =
                [variant |-> "Number", fraction_digits |-> Some(WireConfig[k].n)]

\* C23: a field whose wire form has no config key decodes, for each of the
\* eleven field types, to a Field of that type whose config is Config::None;
\* this includes the six types for which has_config is true.
C23_MissingConfigIsNone ==
    ( /\ decoded.kind # "none"
      /\ IsFieldJson(wire)
      /\ wire.o["type"].s \in FieldTypeNames
      /\ ~HasKey(wire, "config") )
    => /\ decoded.kind = "Field"
       /\ decoded.field.field_type = wire.o["type"].s
       /\ decoded.field.config = [variant |-> "None"]

\* A currency field, a type that has a config, has been decoded from a wire
\* form without the config key.
C23_Witness ==
    /\ decoded.kind = "Field"
    /\ IsFieldJson(wire)
    /\ ~HasKey(wire, "config")
    /\ wire.o["type"].s = "currency"
    /\ has_config(decoded.field.field_type)
    /\ decoded.field.config = [variant |-> "None"]

-----------------------------------------------------------------------------
(* The URLs of the endpoints that take a query (lib.rs).  A String the     *)
(* code formats is the sequence of its pieces, the delimiters "?", "&" and  *)
(* "=" each a piece of their own; a string of the caller is the sequence   *)
(* of its characters.                                                      *)

\* Bound: the longest cursor or search text a caller passes.
MaxText == 2

\* limit: Option<u8>, and Option<usize> for workspace_list
Limits == {1, 100, 255}
BigLimits == Limits \cup {1000}

\* Characters of a caller's string: some that urlencoding leaves alone, some
\* that delimit a query, a space.
Unreserved == {"a", "7"}
Chars == Unreserved \cup {"&", "=", " ", "#"}
Texts == UNION {[1..n -> Chars] : n \in 1..MaxText}

\* urlencoding::encode: every byte but A-Z a-z 0-9 - _ . ~ becomes %XX.
encode_byte(c) ==
    CASE c \in Unreserved -> c
      [] c = "&" -> "%26"
      [] c = "=" -> "%3D"
      [] c = " " -> "%20"
      [] c = "#" -> "%23"

encode(s) == [i \in 1..Len(s) |-> encode_byte(s[i])]

\* Vec<String>::join(""): the Strings one after the other.
RECURSIVE join(_)
join(q) == IF Len(q) = 0 THEN <<>> ELSE Head(q) \o join(Tail(q))

\* Client::team_list, up to the url
team_list_url(baseurl, limit, after) ==
    LET q1 == IF limit.some THEN << <<"limit", "=", ToString(limit.v)>> >> ELSE <<>>
        q2 == IF after.some /\ Len(q1) # 0 THEN Append(q1, <<"&">>) ELSE q1
        query == IF after.some THEN Append(q2, <<"after", "=">> \o after.v) ELSE q2
    IN  IF Len(query) # 0
        THEN <<baseurl, "/v0/teams", "?">> \o join(query)
        ELSE <<baseurl, "/v0/teams">>

\* Client::workspace_list, up to the url
workspace_list_url(baseurl, limit, after) ==
    LET q1 == IF limit.some THEN << <<"limit", "=", ToString(limit.v)>> >> ELSE <<>>
        q2 == IF after.some /\ Len(q1) # 0 THEN Append(q1, <<"&">>) ELSE q1
        query == IF after.some THEN Append(q2, <<"after", "=">> \o after.v) ELSE q2
    IN  IF Len(query) # 0
        THEN <<baseurl, "/v0/workspaces", "?">> \o join(query)
        ELSE <<baseurl, "/v0/workspaces">>

\* Client::all_pages_for_team, up to the url
all_pages_for_team_url(baseurl, team, limit, after) ==
    LET q1 == << <<"?">>, <<"teamId", "=", team>> >>
        q2 == IF limit.some
              THEN Append(q1, <<"&", "limit", "=", ToString(limit.v)>>) ELSE q1
        query == IF after.some THEN Append(q2, <<"&", "limit", "=", after.v>>) ELSE q2
    IN  <<baseurl, "/v0/items">> \o join(query)

\* Client::all_pages_for_workspace, up to the url
all_pages_for_workspace_url(baseurl, ws, limit, after) ==
    LET q1 == << <<"?">>, <<"workspaceId", "=", ws>> >>
        q2 == IF limit.some
              THEN Append(q1, <<"&", "limit", "=", ToString(limit.v)>>) ELSE q1
        query == IF after.some THEN Append(q2, <<"&", "limit", "=", after.v>>) ELSE q2
    IN  <<baseurl, "/v0/items">> \o join(query)

\* Client::search_team, up to the url
search_team_url(baseurl, team, search, limit) ==
    LET q1 == << <<"?", "teamId", "=", team>>, <<"&", "search", "=">> \o encode(search) >>
        query == IF limit.some
                 THEN Append(q1, <<"&", "limit", "=", ToString(limit.v)>>) ELSE q1
    IN  <<baseurl, "/v0/items">> \o join(query)

\* Client::search_workspace, up to the url
search_workspace_url(baseurl, ws, search, limit) ==
    LET q1 == << <<"?", "workspaceId", "=", ws>>, <<"&", "search", "=">> \o encode(search) >>
        query == IF limit.some
                 THEN Append(q1, <<"&", "limit", "=", ToString(limit.v)>>) ELSE q1
    IN  <<baseurl, "/v0/items">> \o join(query)

OptionOf(S) == {None} \cup {Some(x) : x \in S}

\* The calls a caller can make: the endpoint and its arguments.
ListArgs ==
    [endpoint : {"team_list"}, limit : OptionOf(Limits), after : OptionOf(Texts)]
    \cup [endpoint : {"workspace_list"}, limit : OptionOf(BigLimits),
          after : OptionOf(Texts)]
AllPagesArgs ==
    [endpoint : {"all_pages_for_team", "all_pages_for_workspace"}, id : Uuids,
     limit : OptionOf(Limits), after : OptionOf(Uuids)]
SearchArgs ==
    [endpoint : {"search_team", "search_workspace"}, id : Uuids, search : Texts,
     limit : OptionOf(Limits)]

InitUrl ==
    /\ RequestInit /\ ClientIdle /\ PagesIdle
    /\ args \in ListArgs \cup AllPagesArgs \cup SearchArgs
    /\ url = NoUrl

TeamList ==
    /\ args.endpoint = "team_list" /\ url = NoUrl
    /\ url' = team_list_url(BASE_URL, args.limit, args.after)
    /\ UNCHANGED <<args, requestVars, clientVars, pageVars>>

WorkspaceList ==
    /\ args.endpoint = "workspace_list" /\ url = NoUrl
    /\ url' = workspace_list_url(BASE_URL, args.limit, args.after)
    /\ UNCHANGED <<args, requestVars, clientVars, pageVars>>

AllPagesForTeam ==
    /\ args.endpoint = "all_pages_for_team" /\ url = NoUrl
    /\ url' = all_pages_for_team_url(BASE_URL, args.id, args.limit, args.after)
    /\ UNCHANGED <<args, requestVars, clientVars, pageVars>>

AllPagesForWorkspace ==
    /\ args.endpoint = "all_pages_for_workspace" /\ url = NoUrl
    /\ url' = all_pages_for_workspace_url(BASE_URL, args.id, args.limit, args.after)
    /\ UNCHANGED <<args, requestVars, clientVars, pageVars>>

SearchTeam ==
    /\ args.endpoint = "search_team" /\ url = NoUrl
    /\ url' = search_team_url(BASE_URL, args.id, args.search, args.limit)
    /\ UNCHANGED <<args, requestVars, clientVars, pageVars>>

SearchWorkspace ==
    /\ args.endpoint = "search_workspace" /\ url = NoUrl
    /\ url' = search_workspace_url(BASE_URL, args.id, args.search, args.limit)
    /\ UNCHANGED <<args, requestVars, clientVars, pageVars>>

NextUrl ==
    \/ TeamList
    \/ WorkspaceList
    \/ AllPagesForTeam
    \/ AllPagesForWorkspace
    \/ SearchTeam
    \/ SearchWorkspace

SpecUrl == InitUrl /\ [][NextUrl]_vars

-----------------------------------------------------------------------------
(* Properties of the URLs, checked under SpecUrl.                          *)

\* Where the URL has the key k of a query pair.
KeyAt(u, k) == {i \in 1..(Len(u) - 2) : u[i] = k /\ u[i + 1] = "="}

\* C14: the URL of all_pages_for_team and all_pages_for_workspace called with
\* after = Some(id) has the pair after=<id>; it has the key limit at most
\* once, only when a limit is given, and then with the limit as its value.
C14_CursorUnderAfter ==
    ( /\ args.endpoint \in {"all_pages_for_team", "all_pages_for_workspace"}
      /\ url # NoUrl
      /\ args.after.some )
    => /\ \E i \in KeyAt(url, "after") : url[i + 2] = args.after.v
       /\ Cardinality(KeyAt(url, "limit")) <= 1
       /\ KeyAt(url, "limit") # {} <=> args.limit.some
       /\ \A i \in KeyAt(url, "limit") : url[i + 2] = ToString(args.limit.v)

\* The path of the two list endpoints.
ListPath == IF args.endpoint = "team_list" THEN "/v0/teams" ELSE "/v0/workspaces"

\* C19: the URL of team_list and workspace_list is the bare path when neither
\* limit nor after is given, path?limit=<n> with only a limit,
\* path?after=<cursor> with only a cursor and path?limit=<n>&after=<cursor>
\* with both, the cursor percent-encoded; so it has one "?" exactly when it
\* has a query, and one "&" exactly when it has both pairs.
C19_ListUrlWellFormed ==
    (args.endpoint \in {"team_list", "workspace_list"} /\ url # NoUrl) =>
        LET lim == IF args.limit.some
                   THEN <<"limit", "=", ToString(args.limit.v)>> ELSE <<>>
            aft == IF args.after.some
                   THEN <<"after", "=">> \o encode(args.after.v) ELSE <<>>
            amp == IF args.limit.some /\ args.after.some THEN <<"&">> ELSE <<>>
            qm == IF args.limit.some \/ args.after.some THEN <<"?">> ELSE <<>>
        IN  /\ url = <<BASE_URL, ListPath>> \o qm \o lim \o amp \o aft
            /\ Cardinality({i \in 1..Len(url) : url[i] = "?"}) = Len(qm)
            /\ Cardinality({i \in 1..Len(url) : url[i] = "&"}) = Len(amp)

=============================================================================
